---- MODULE Spec2Model ----
(***************************************************************************)
(* DynamicList (src/dynamic_list.py): a type-constrained list with         *)
(* element-wise arithmetic and descriptive statistics.                     *)
(*                                                                         *)
(* Python values are records [t, v]: t is the runtime type, v an integer.  *)
(* For numbers v counts quarters (1 is 4, 1.5 is 6), so that halves of     *)
(* sums stay integral; for strings over the one-letter alphabet {"a"} v is *)
(* the length ("a" is 1, "aa" is 2).                                       *)
(*                                                                         *)
(* The heap is two maps: objs, the DynamicList objects the driver holds    *)
(* under the names L (receiver), M (other operand) and R (last returned    *)
(* container), each with its fields __data (a reference to a Python list)  *)
(* and __allowed_type; and lists, the Python list objects.                 *)
(***************************************************************************)
EXTENDS Integers, Sequences, FiniteSets, TLC

VARIABLES objs, lists, res

vars == <<objs, lists, res>>

\* Bounds of the model.
MaxLen == 3
MaxExt == 3

----------------------------------------------------------------------------
\* Python values

PyInt(k) == [t |-> "int", v |-> 4 * k]

PyFloat(q) == [t |-> "float", v |-> q]

PyStr(n) == [t |-> "str", v |-> n]

PyBool(b) == [t |-> "bool", v |-> IF b THEN 4 ELSE 0]

PyNone == [t |-> "NoneType", v |-> 0]

\* What a call returns when it returns a DynamicList: the object is objs["R"].
PyDynamicList == [t |-> "DynamicList", v |-> 0]

\* The values the driver appends, inserts and assigns: 1, 1.5 and "a".
Values == {PyInt(1), PyFloat(6), PyStr(1)}

IsNum(a) == a.t \in {"int", "float", "bool"}

\* Floats are IEEE doubles. A number of ordinary size is v quarters, and the
\* sums and differences of the ordinary numbers of the model are exact. A
\* float near the top of the range carries its binary exponent e as well: it
\* is (v / 4) * 2^e with 4 <= |v| < 8. No double reaches 2^1024: what would is
\* an infinity, and inf - inf and 0.0 * inf are nan.
Exp(a) == IF "e" \in DOMAIN a THEN a.e ELSE 0

PyInf == [t |-> "float", v |-> 4, e |-> 1024]

PyNan == [t |-> "float", v |-> 0, e |-> 1024]

\* -a on floats.
float_neg(a) == IF Exp(a) = 0 THEN PyFloat(-a.v) ELSE [a EXCEPT !.v = -a.v]

\* The double (m / 4) * 2^k, for an m of at most three significant bits.
RECURSIVE PyLarge(_, _)
PyLarge(m, k) ==
    IF m = 0 THEN PyFloat(0)
    ELSE IF -4 < m /\ m < 4 THEN PyLarge(2 * m, k - 1)
    ELSE IF (m >= 8 \/ m <= -8) /\ m % 2 = 0 THEN PyLarge(m \div 2, k + 1)
    ELSE IF k >= PyInf.e THEN (IF m > 0 THEN PyInf ELSE float_neg(PyInf))
    ELSE [t |-> "float", v |-> m, e |-> k]

\* a + b in double arithmetic, rounded to nearest. An ordinary number is
\* less than half a unit in the last place of a large one.
float_add(a, b) ==
    IF a = PyNan \/ b = PyNan THEN PyNan
    ELSE IF Exp(a) = PyInf.e THEN (IF Exp(b) = PyInf.e /\ b # a THEN PyNan ELSE a)
    ELSE IF Exp(b) = PyInf.e THEN b
    ELSE IF Exp(a) = 0 /\ Exp(b) = 0 THEN PyFloat(a.v + b.v)
    ELSE IF Exp(a) = 0 THEN b
    ELSE IF Exp(b) = 0 THEN a
    ELSE LET k == IF a.e < b.e THEN a.e ELSE b.e
         IN  PyLarge(a.v * 2^(a.e - k) + b.v * 2^(b.e - k), k)

\* (f / 4) * a in double arithmetic, for a fraction of f quarters.
float_scale(f, a) ==
    IF a = PyNan THEN PyNan
    ELSE IF Exp(a) = PyInf.e THEN (IF f = 0 THEN PyNan ELSE a)
    ELSE IF Exp(a) = 0 THEN PyFloat((f * a.v) \div 4)
    ELSE PyLarge(f * a.v, a.e - 2)

\* a == b on Python values: numbers compare by value across int and float,
\* and nan equals nothing.
PyEq(a, b) ==
    IF IsNum(a) /\ IsNum(b)
    THEN a.v = b.v /\ Exp(a) = Exp(b) /\ a # PyNan
    ELSE a.t = b.t /\ a.v = b.v

\* Whether a < b is defined: numbers with numbers, strings with strings.
Orderable(a, b) == (IsNum(a) /\ IsNum(b)) \/ (a.t = "str" /\ b.t = "str")

\* a < b where it is defined (strings of one letter order by length).
PyLt(a, b) ==
    IF a = PyNan \/ b = PyNan THEN FALSE
    ELSE IF Exp(a) = Exp(b) THEN a.v < b.v
    ELSE IF Exp(a) > Exp(b) THEN a.v < 0
    ELSE b.v > 0

\* The type of an arithmetic result on two numbers.
NumType(a, b) == IF a.t = "float" \/ b.t = "float" THEN "float" ELSE "int"

NoExc == "none"

\* a + b: [exc, val]. str + str concatenates; str with a number is a TypeError.
PyAdd(a, b) ==
    IF IsNum(a) /\ IsNum(b)
    THEN [exc |-> NoExc,
          val |-> IF NumType(a, b) = "float" THEN float_add(a, b)
                  ELSE [t |-> "int", v |-> a.v + b.v]]
    ELSE IF a.t = "str" /\ b.t = "str"
    THEN [exc |-> NoExc, val |-> PyStr(a.v + b.v)]
    ELSE [exc |-> "TypeError", val |-> PyNone]

\* a - b: [exc, val]. Defined on numbers only.
PySub(a, b) ==
    IF IsNum(a) /\ IsNum(b)
    THEN [exc |-> NoExc,
          val |-> IF NumType(a, b) = "float" THEN float_add(a, float_neg(b))
                  ELSE [t |-> "int", v |-> a.v - b.v]]
    ELSE [exc |-> "TypeError", val |-> PyNone]

----------------------------------------------------------------------------
\* Allowed types: a bare type (int) or a tuple of types ((int, float)).
\* int != (int,) in Python, so the two shapes are kept apart.

BareType(t) == [bare |-> TRUE, types |-> <<t>>]

TupleType(ts) == [bare |-> FALSE, types |-> ts]

\* The constructor's default, allowed_type=(int, float).
DefaultAllowed == TupleType(<<"int", "float">>)

\* The default None of __validate_type's allowed_type parameter.
NoneArg == [bare |-> TRUE, types |-> <<"NoneType">>]

AllowedTypes ==
    {BareType("int"), BareType("float"), BareType("str"), DefaultAllowed,
     TupleType(<<"int", "str">>)}

issubclass(a, b) == a = b \/ (a = "bool" /\ b = "int")

isinstance(value, allowed_type) ==
    \E i \in 1..Len(allowed_type.types) : issubclass(value.t, allowed_type.types[i])

----------------------------------------------------------------------------
\* The heap

Names == {"L", "M", "R"}

ListIds == {"L", "M", "R", "T"}

\* The elements of object x.
Data(H, x) == H.lists[H.objs[x].data]

\* The list ids some object other than x refers to.
InUse(H, x) == {H.objs[y].data : y \in DOMAIN H.objs \ {x}}

\* The id of a list newly created for object x: a list no other object holds.
NewList(H, x) ==
    IF x \notin InUse(H, x) THEN x ELSE CHOOSE id \in ListIds : id \notin InUse(H, x)

\* Lists no object refers to are garbage.
Collect(o, l) ==
    [objs |-> o, lists |-> [id \in {o[y].data : y \in DOMAIN o} |-> l[id]]]

\* self.__data = <a new list holding seq>
SetData(H, x, seq) ==
    LET id == NewList(H, x)
    IN  Collect([H.objs EXCEPT ![x].data = id], (id :> seq) @@ H.lists)

\* A change of the list self.__data refers to, in place.
InPlace(H, x, seq) == [H EXCEPT !.lists[H.objs[x].data] = seq]

\* What a call returns: the heap after it, the exception raised, the value.
Raise(H, e) == [H |-> H, exc |-> e, ret |-> PyNone]

Return(H, value) == [H |-> H, exc |-> NoExc, ret |-> value]

\* DynamicList(allowed_type) bound to the name x.
__init__(H, x, allowed_type) ==
    LET dropped == [y \in DOMAIN H.objs \ {x} |-> H.objs[y]]
        id == NewList([objs |-> dropped, lists |-> H.lists], x)
    IN  Collect((x :> [data |-> id, allowed |-> allowed_type]) @@ dropped,
                (id :> <<>>) @@ H.lists)

----------------------------------------------------------------------------
\* Validators

__validate_type(self, value, allowed_type) ==
    LET at == IF allowed_type = NoneArg THEN self.allowed ELSE allowed_type
    IN  IF ~isinstance(value, at) THEN "InvalidElementTypeError" ELSE NoExc

\* The right operand of a binary operation is named by the driver: the name of
\* a DynamicList on the heap, or PlainOperand, the plain integer 1.
PlainOperand == "int"

__validate_other(H, other) ==
    IF other \notin DOMAIN H.objs THEN "WrongDataTypeError" ELSE NoExc

__validate_empty_list(data) ==
    IF Len(data) = 0 THEN "EmptyListError" ELSE NoExc

\* The index validator with > in place of >=.
validate_index_off_by_one(data, index) ==
    IF index > Len(data) \/ index < -Len(data) THEN "IndexOutOfRangeError" ELSE NoExc

__validate_index_error(data, index) ==
    IF index >= Len(data) \/ index < -Len(data) THEN "IndexOutOfRangeError" ELSE NoExc

__validate_contents_are_numeric(self, data) ==
    IF __validate_empty_list(data) # NoExc THEN __validate_empty_list(data)
    ELSE IF \E i \in 1..Len(self.allowed.types) :
                ~(issubclass(self.allowed.types[i], "int")
                  \/ issubclass(self.allowed.types[i], "float"))
    THEN "WrongDataTypeError"
    ELSE NoExc

----------------------------------------------------------------------------
\* Python list primitives

\* The 1-based position of index i in a list of length n (i in -n..n-1).
Pos(i, n) == IF i < 0 THEN i + n + 1 ELSE i + 1

InRange(i, n) == -n <= i /\ i < n

\* list.insert(index, value): the index is clamped into 0..n.
list_insert(s, index, value) ==
    LET n == Len(s)
        j == IF index < 0 THEN (IF index + n < 0 THEN 0 ELSE index + n)
             ELSE (IF index > n THEN n ELSE index)
    IN  SubSeq(s, 1, j) \o <<value>> \o SubSeq(s, j + 1, n)

\* del s[index], for an index in range.
list_remove(s, index) ==
    SubSeq(s, 1, Pos(index, Len(s)) - 1) \o SubSeq(s, Pos(index, Len(s)) + 1, Len(s))

\* s[index] = value, for an index in range.
list_set(s, index, value) == [s EXCEPT ![Pos(index, Len(s))] = value]

\* One step of a stable insertion sort: x goes after the elements it does not
\* precede.
RECURSIVE SortedInsert(_, _, _)
SortedInsert(s, x, descending) ==
    IF s = <<>> THEN <<x>>
    ELSE IF (IF descending THEN PyLt(Head(s), x) ELSE PyLt(x, Head(s)))
    THEN <<x>> \o s
    ELSE <<Head(s)>> \o SortedInsert(Tail(s), x, descending)

RECURSIVE SortSeqStable(_, _)
SortSeqStable(s, descending) ==
    IF s = <<>> THEN <<>>
    ELSE SortedInsert(SortSeqStable(SubSeq(s, 1, Len(s) - 1), descending), s[Len(s)], descending)

\* sorted(data, reverse=reverse): [exc, val]. Ordering a string against a
\* number is a TypeError, and every sort of a list holding both compares one.
sorted(data, descending) ==
    IF \E i, j \in 1..Len(data) : ~Orderable(data[i], data[j])
    THEN [exc |-> "TypeError", val |-> <<>>]
    ELSE [exc |-> NoExc, val |-> SortSeqStable(data, descending)]

----------------------------------------------------------------------------
\* Mutation operations. H is the heap [objs, lists], x the receiver's name.

\* append that stores the value before validating it.
append_then_validate(H, x, value) ==
    LET e == __validate_type(H.objs[x], value, NoneArg)
        stored == InPlace(H, x, Append(Data(H, x), value))
    IN  IF e # NoExc THEN Raise(stored, e) ELSE Return(stored, PyNone)

append(H, x, value) ==
    LET e == __validate_type(H.objs[x], value, NoneArg)
    IN  IF e # NoExc THEN Raise(H, e)
        ELSE Return(InPlace(H, x, Append(Data(H, x), value)), PyNone)

insert(H, x, index, value) ==
    IF index > Len(Data(H, x)) \/ index < -Len(Data(H, x))
    THEN Raise(H, "IndexOutOfRangeError")
    ELSE LET e == __validate_type(H.objs[x], value, NoneArg)
         IN  IF e # NoExc THEN Raise(H, e)
             ELSE Return(InPlace(H, x, list_insert(Data(H, x), index, value)), PyNone)

\* extend that validates every value before it appends any.
extend_all_or_nothing(H, x, l) ==
    IF \E i \in 1..Len(l) : __validate_type(H.objs[x], l[i], NoneArg) # NoExc
    THEN Raise(H, "InvalidElementTypeError")
    ELSE Return(InPlace(H, x, Data(H, x) \o l), PyNone)

RECURSIVE extend(_, _, _)
extend(H, x, l) ==
    IF l = <<>> THEN Return(H, PyNone)
    ELSE LET e == __validate_type(H.objs[x], Head(l), NoneArg)
         IN  IF e # NoExc THEN Raise(H, e)
             ELSE extend(InPlace(H, x, Append(Data(H, x), Head(l))), x, Tail(l))

\* The index pop() takes when the caller gives none.
pop_default_index == -1

\* self.__data.pop(index) raises the list's own IndexError out of range.
pop(H, x, index) ==
    LET e == __validate_index_error(Data(H, x), index)
    IN  IF e # NoExc THEN Raise(H, e)
        ELSE IF ~InRange(index, Len(Data(H, x))) THEN Raise(H, "IndexError")
        ELSE Return(InPlace(H, x, list_remove(Data(H, x), index)),
                    Data(H, x)[Pos(index, Len(Data(H, x)))])

clear(H, x) == Return(SetData(H, x, <<>>), PyNone)

sort(H, x, descending) ==
    LET s == sorted(Data(H, x), descending)
    IN  IF s.exc # NoExc THEN Raise(H, s.exc)
        ELSE Return(SetData(H, x, s.val), PyNone)

\* __setitem__ without its type validation.
setitem_unvalidated(H, x, index, value) ==
    IF ~InRange(index, Len(Data(H, x))) THEN Raise(H, "IndexError")
    ELSE Return(InPlace(H, x, list_set(Data(H, x), index, value)), PyNone)

__setitem__(H, x, index, value) ==
    LET e == __validate_type(H.objs[x], value, NoneArg)
    IN  IF e # NoExc THEN Raise(H, e)
        ELSE IF ~InRange(index, Len(Data(H, x))) THEN Raise(H, "IndexError")
        ELSE Return(InPlace(H, x, list_set(Data(H, x), index, value)), PyNone)

__delitem__(H, x, index) ==
    LET e == __validate_index_error(Data(H, x), index)
    IN  IF e # NoExc THEN Raise(H, e)
        ELSE IF ~InRange(index, Len(Data(H, x))) THEN Raise(H, "IndexError")
        ELSE Return(InPlace(H, x, list_remove(Data(H, x), index)), PyNone)

\* DynamicList.from_list(regular_list, allowed_type), bound to the name x when
\* it returns; when extend raises, the new object is dropped with the frame.
from_list(H, x, regular_list, allowed_type) ==
    LET r == extend(__init__(H, x, allowed_type), x, regular_list)
    IN  IF r.exc # NoExc THEN Raise(H, r.exc)
        ELSE Return(r.H, PyDynamicList)

----------------------------------------------------------------------------
\* Access

\* self.__data[index] for an integer index: the list's own IndexError when the
\* index is out of range.
__getitem__(H, x, index) ==
    IF ~InRange(index, Len(Data(H, x))) THEN Raise(H, "IndexError")
    ELSE Return(H, Data(H, x)[Pos(index, Len(Data(H, x)))])

\* A slice bound clamped into 0..n, as list slicing does.
SliceBound(i, n) ==
    IF i < 0 THEN (IF i + n < 0 THEN 0 ELSE i + n) ELSE (IF i > n THEN n ELSE i)

\* data[start:stop]
list_slice(data, start, stop) ==
    SubSeq(data, SliceBound(start, Len(data)) + 1, SliceBound(stop, Len(data)))

\* self[start:stop]: the slice branch of __getitem__.
__getitem__slice(H, x, start, stop) ==
    from_list(H, "R", list_slice(Data(H, x), start, stop), H.objs[x].allowed)

----------------------------------------------------------------------------
\* Derived lists

RECURSIVE reversed(_)
reversed(s) == IF s = <<>> THEN <<>> ELSE reversed(Tail(s)) \o <<Head(s)>>

reverse(H, x) == from_list(H, "R", reversed(Data(H, x)), H.objs[x].allowed)

\* i in unique_list: membership by ==.
list_contains(s, a) == \E i \in 1..Len(s) : PyEq(s[i], a)

RECURSIVE unique_list(_, _)
unique_list(data, acc) ==
    IF data = <<>> THEN acc
    ELSE unique_list(Tail(data),
                     IF list_contains(acc, Head(data)) THEN acc ELSE Append(acc, Head(data)))

unique(H, x) == from_list(H, "R", unique_list(Data(H, x), <<>>), H.objs[x].allowed)

\* copy whose result refers to the receiver's own list.
copy_shared_data(H, x) ==
    Return(Collect(("R" :> [data |-> H.objs[x].data, allowed |-> H.objs[x].allowed])
                       @@ H.objs,
                   H.lists),
           PyDynamicList)

copy(H, x) == from_list(H, "R", Data(H, x), H.objs[x].allowed)

\* The functions the driver maps: lambda x: x, lambda x: x + x, float.
Funcs == {"identity", "double", "float"}

apply(func, a) ==
    IF func = "identity" THEN [exc |-> NoExc, val |-> a]
    ELSE IF func = "double" THEN PyAdd(a, a)
    ELSE IF IsNum(a) THEN [exc |-> NoExc, val |-> PyFloat(a.v)]
    ELSE [exc |-> "ValueError", val |-> PyNone]

\* [f(i) for i in data]: [exc, val]; the first failing call ends it.
RECURSIVE comprehension(_, _)
comprehension(func, data) ==
    IF data = <<>> THEN [exc |-> NoExc, val |-> <<>>]
    ELSE LET h == apply(func, Head(data))
             rest == comprehension(func, Tail(data))
         IN  IF h.exc # NoExc THEN [exc |-> h.exc, val |-> <<>>]
             ELSE IF rest.exc # NoExc THEN rest
             ELSE [exc |-> NoExc, val |-> <<h.val>> \o rest.val]

map(H, x, func) ==
    LET new_list == comprehension(func, Data(H, x))
        new_allowed_type == IF new_list.val = <<>> THEN H.objs[x].allowed
                            ELSE BareType(new_list.val[1].t)
    IN  IF new_list.exc # NoExc THEN Raise(H, new_list.exc)
        ELSE from_list(H, "R", new_list.val, new_allowed_type)

\* The predicates the driver filters by: lambda x: True, lambda x: False,
\* lambda x: x > 1.
Preds == {"all", "none", "gt1"}

test(pred, a) ==
    IF pred = "all" THEN [exc |-> NoExc, val |-> TRUE]
    ELSE IF pred = "none" THEN [exc |-> NoExc, val |-> FALSE]
    ELSE IF IsNum(a) THEN [exc |-> NoExc, val |-> a.v > 4]
    ELSE [exc |-> "TypeError", val |-> FALSE]

filter(H, x, pred) ==
    LET data == Data(H, x)
    IN  IF \E i \in 1..Len(data) : test(pred, data[i]).exc # NoExc
        THEN Raise(H, "TypeError")
        ELSE from_list(H, "R",
                       SelectSeq(data, LAMBDA a : test(pred, a).val),
                       H.objs[x].allowed)

----------------------------------------------------------------------------
\* Comparison

\* list == list
list_eq(a, b) == Len(a) = Len(b) /\ \A i \in 1..Len(a) : PyEq(a[i], b[i])

\* The first position at which two lists differ, 0 when one is a prefix of the
\* other.
FirstDiff(a, b) ==
    LET m == IF Len(a) < Len(b) THEN Len(a) ELSE Len(b)
        D == {i \in 1..m : ~PyEq(a[i], b[i])}
    IN  IF D = {} THEN 0 ELSE CHOOSE i \in D : \A j \in D : i <= j

Compare(u, v, rel) ==
    IF rel = "<" THEN u < v
    ELSE IF rel = "<=" THEN u <= v
    ELSE IF rel = ">" THEN u > v
    ELSE u >= v

\* list < list, <=, >, >=: lexicographic, [exc, val].
list_cmp(a, b, rel) ==
    LET k == FirstDiff(a, b)
    IN  IF k = 0 THEN [exc |-> NoExc, val |-> Compare(Len(a), Len(b), rel)]
        ELSE IF ~Orderable(a[k], b[k]) THEN [exc |-> "TypeError", val |-> FALSE]
        ELSE [exc |-> NoExc, val |-> Compare(a[k].v, b[k].v, rel)]

__eq__(H, x, other) ==
    LET e == __validate_other(H, other)
    IN  IF e # NoExc THEN Raise(H, e)
        ELSE IF H.objs[x].allowed # H.objs[other].allowed
        THEN Raise(H, "WrongDataTypeError")
        ELSE Return(H, PyBool(list_eq(Data(H, x), Data(H, other))))

__ne__(H, x, other) ==
    LET e == __validate_other(H, other)
    IN  IF e # NoExc THEN Raise(H, e)
        ELSE LET r == __eq__(H, x, other)
             IN  IF r.exc # NoExc THEN r ELSE Return(H, PyBool(r.ret = PyBool(FALSE)))

\* The body shared by __lt__, __le__, __gt__ and __ge__.
ordering(H, x, other, rel) ==
    LET e == __validate_other(H, other)
    IN  IF e # NoExc THEN Raise(H, e)
        ELSE LET c == list_cmp(Data(H, x), Data(H, other), rel)
             IN  IF c.exc # NoExc THEN Raise(H, c.exc) ELSE Return(H, PyBool(c.val))

__lt__(H, x, other) == ordering(H, x, other, "<")

__le__(H, x, other) == ordering(H, x, other, "<=")

__gt__(H, x, other) == ordering(H, x, other, ">")

__ge__(H, x, other) == ordering(H, x, other, ">=")

----------------------------------------------------------------------------
\* Arithmetic

\* [a[i] + b[i] for i in range(len(a))] (sub: a[i] - b[i]): [exc, val].
RECURSIVE elementwise(_, _, _)
elementwise(a, b, sub) ==
    IF a = <<>> THEN [exc |-> NoExc, val |-> <<>>]
    ELSE LET h == IF sub THEN PySub(Head(a), Head(b)) ELSE PyAdd(Head(a), Head(b))
             rest == elementwise(Tail(a), Tail(b), sub)
         IN  IF h.exc # NoExc THEN [exc |-> h.exc, val |-> <<>>]
             ELSE IF rest.exc # NoExc THEN rest
             ELSE [exc |-> NoExc, val |-> <<h.val>> \o rest.val]

__add__(H, x, other) ==
    LET e == __validate_other(H, other)
    IN  IF e # NoExc THEN Raise(H, e)
        ELSE IF Len(Data(H, x)) # Len(Data(H, other))
        THEN Raise(H, "LengthNotEqualError")
        ELSE LET new_list == elementwise(Data(H, x), Data(H, other), FALSE)
             IN  IF new_list.exc # NoExc THEN Raise(H, new_list.exc)
                 ELSE from_list(H, "R", new_list.val, H.objs[x].allowed)

\* __sub__ with the body of __add__.
sub_as_add(H, x, other) == __add__(H, x, other)

__sub__(H, x, other) ==
    LET e == __validate_other(H, other)
    IN  IF e # NoExc THEN Raise(H, e)
        ELSE IF Len(Data(H, x)) # Len(Data(H, other))
        THEN Raise(H, "LengthNotEqualError")
        ELSE LET new_list == elementwise(Data(H, x), Data(H, other), TRUE)
             IN  IF new_list.exc # NoExc THEN Raise(H, new_list.exc)
                 ELSE from_list(H, "R", new_list.val, H.objs[x].allowed)

concat(H, x, other) ==
    LET e == __validate_other(H, other)
    IN  IF e # NoExc THEN Raise(H, e)
        ELSE LET new_list == __init__(H, "R", H.objs[x].allowed)
                 r1 == extend(new_list, "R", Data(H, x))
                 r2 == extend(r1.H, "R", Data(H, other))
             IN  IF r1.exc # NoExc THEN Raise(H, r1.exc)
                 ELSE IF r2.exc # NoExc THEN Raise(H, r2.exc)
                 ELSE Return(r2.H, PyDynamicList)

__iadd__(H, x, other) == __add__(H, x, other)

\* data * n: n copies of data, none when n <= 0.
RECURSIVE list_repeat(_, _)
list_repeat(data, n) == IF n <= 0 THEN <<>> ELSE data \o list_repeat(data, n - 1)

\* The scalers the driver multiplies by: -1, 0, 1, 2 and the float 1.5.
Scalers == {PyInt(-1), PyInt(0), PyInt(1), PyInt(2), PyFloat(6)}

__mul__(H, x, scaler) ==
    IF ~isinstance(scaler, BareType("int")) THEN Raise(H, "TypeError")
    ELSE from_list(H, "R", list_repeat(Data(H, x), scaler.v \div 4), H.objs[x].allowed)

\* __imul__ that repeats self.__data in place and returns self.
imul_in_place(H, x, scaler) ==
    IF ~isinstance(scaler, BareType("int")) THEN Raise(H, "TypeError")
    ELSE Return(Collect(("R" :> H.objs[x]) @@ H.objs,
                        InPlace(H, x, list_repeat(Data(H, x), scaler.v \div 4)).lists),
                PyDynamicList)

__imul__(H, x, scaler) == __mul__(H, x, scaler)

__rmul__(H, x, scaler) == __mul__(H, x, scaler)

----------------------------------------------------------------------------
\* Statistics

\* A number of type t whose value the model does not compute (a mean, a
\* variance, a product: not a multiple of a quarter in general).
ANumber(t) == [t |-> t, v |-> 0]

PyDict == [t |-> "dict", v |-> 0]

\* sum(data) on numbers: starts from the int 0.
RECURSIVE list_sum(_)
list_sum(data) ==
    IF data = <<>> THEN PyInt(0)
    ELSE PyAdd(list_sum(SubSeq(data, 1, Len(data) - 1)), data[Len(data)]).val

\* min(data), max(data): the first of the smallest (largest) elements.
list_min(data) ==
    data[CHOOSE k \in 1..Len(data) :
            /\ \A j \in 1..Len(data) : ~PyLt(data[j], data[k])
            /\ \A j \in 1..(k - 1) : PyLt(data[k], data[j])]

list_max(data) ==
    data[CHOOSE k \in 1..Len(data) :
            /\ \A j \in 1..Len(data) : ~PyLt(data[k], data[j])
            /\ \A j \in 1..(k - 1) : PyLt(data[j], data[k])]

\* The first exception validating every element against (int, float) raises.
validate_each(self, data) ==
    IF \E i \in 1..Len(data) : __validate_type(self, data[i], DefaultAllowed) # NoExc
    THEN "InvalidElementTypeError"
    ELSE NoExc

sum(H, x) ==
    LET e == validate_each(H.objs[x], Data(H, x))
    IN  IF e # NoExc THEN Raise(H, e) ELSE Return(H, list_sum(Data(H, x)))

product(H, x) ==
    LET e == __validate_contents_are_numeric(H.objs[x], Data(H, x))
    IN  IF e # NoExc THEN Raise(H, e) ELSE Return(H, ANumber(list_sum(Data(H, x)).t))

min(H, x) ==
    LET e == __validate_contents_are_numeric(H.objs[x], Data(H, x))
    IN  IF e # NoExc THEN Raise(H, e) ELSE Return(H, list_min(Data(H, x)))

max(H, x) ==
    LET e == __validate_contents_are_numeric(H.objs[x], Data(H, x))
    IN  IF e # NoExc THEN Raise(H, e) ELSE Return(H, list_max(Data(H, x)))

mean(H, x) ==
    LET e == __validate_contents_are_numeric(H.objs[x], Data(H, x))
    IN  IF e # NoExc THEN Raise(H, e) ELSE Return(H, ANumber("float"))

median(H, x) ==
    LET e == __validate_contents_are_numeric(H.objs[x], Data(H, x))
        sorted_list == sorted(Data(H, x), FALSE).val
        n == Len(sorted_list)
        mid == n \div 2
    IN  IF e # NoExc THEN Raise(H, e)
        ELSE IF n % 2 # 0 THEN Return(H, sorted_list[mid + 1])
        \* (a + b) / 2: the sum is rounded, the halving is exact.
        ELSE Return(H, float_scale(2, PyAdd(sorted_list[mid], sorted_list[mid + 1]).val))

\* Counter(data): the distinct elements in first-seen order, with their counts.
count_of(data, a) == Cardinality({i \in 1..Len(data) : PyEq(data[i], a)})

mode(H, x) ==
    LET e == __validate_empty_list(Data(H, x))
        data == Data(H, x)
        keys == unique_list(data, <<>>)
        max_count == CHOOSE c \in {count_of(data, keys[i]) : i \in 1..Len(keys)} :
                        \A i \in 1..Len(keys) : count_of(data, keys[i]) <= c
        modes == SelectSeq(keys, LAMBDA a : count_of(data, a) = max_count)
    IN  IF e # NoExc THEN Raise(H, e)
        ELSE IF Len(modes) = 1 THEN Return(H, modes[1])
        ELSE Return(H, [t |-> "list", v |-> Len(modes)])

data_range(H, x) ==
    LET e == __validate_empty_list(Data(H, x))
        hi == max(H, x)
        lo == min(H, x)
    IN  IF e # NoExc THEN Raise(H, e)
        ELSE IF hi.exc # NoExc THEN Raise(H, hi.exc)
        ELSE IF lo.exc # NoExc THEN Raise(H, lo.exc)
        ELSE Return(H, PySub(hi.ret, lo.ret).val)

variance(H, x) ==
    LET e == __validate_contents_are_numeric(H.objs[x], Data(H, x))
    IN  IF e # NoExc THEN Raise(H, e)
        ELSE IF Len(Data(H, x)) - 1 = 0 THEN Raise(H, "ZeroDivisionError")
        ELSE Return(H, ANumber("float"))

std(H, x) ==
    LET var == variance(H, x)
    IN  IF var.exc # NoExc THEN var ELSE Return(H, ANumber("float"))

\* The percentiles the driver asks for. For these, and elements that are
\* multiples of a half, rank, fraction and the interpolated value are exact in
\* quarters.
Percentiles == {-1, 0, 50, 100, 101}

percentile(H, x, P) ==
    LET e == __validate_contents_are_numeric(H.objs[x], Data(H, x))
        sorted_data == sorted(Data(H, x), FALSE).val
        n == Len(sorted_data)
        rank == (P * (n - 1) * 4) \div 100
        lower_index == rank \div 4
        upper_index == IF lower_index + 1 < n - 1 THEN lower_index + 1 ELSE n - 1
        fraction == rank - 4 * lower_index
        lower_value == sorted_data[lower_index + 1]
        upper_value == sorted_data[upper_index + 1]
    IN  IF e # NoExc THEN Raise(H, e)
        ELSE IF ~(0 <= P /\ P <= 100) THEN Raise(H, "UnknownValueError")
        ELSE IF n = 1 THEN Return(H, sorted_data[1])
        ELSE Return(H, float_add(lower_value,
                                 float_scale(fraction, PySub(upper_value, lower_value).val)))

describe(H, x) ==
    LET e == __validate_contents_are_numeric(H.objs[x], Data(H, x))
        data_std == std(H, x)
    IN  IF e # NoExc THEN Raise(H, e)
        ELSE IF data_std.exc # NoExc THEN Raise(H, data_std.exc)
        ELSE Return(H, PyDict)

cumulative_sum(H, x) ==
    LET data == Data(H, x)
        e == validate_each(H.objs[x], data)
        cum_sum_list == [k \in 1..Len(data) |-> list_sum(SubSeq(data, 1, k))]
    IN  IF e # NoExc THEN Raise(H, e)
        ELSE from_list(H, "R", cum_sum_list, H.objs[x].allowed)

\* (value - min) / (max - min), a float; exact in quarters for the elements
\* the driver stores (the quotient is 0 or 1).
normalize(H, x) ==
    LET data == Data(H, x)
        e == __validate_contents_are_numeric(H.objs[x], data)
        min_val == list_min(data)
        max_val == list_max(data)
        scaled_list == [k \in 1..Len(data) |->
                           PyFloat(((data[k].v - min_val.v) * 4) \div (max_val.v - min_val.v))]
    IN  IF e # NoExc THEN Raise(H, e)
        ELSE IF PyEq(max_val, min_val) THEN Raise(H, "ValueError")
        ELSE from_list(H, "R", scaled_list, DefaultAllowed)

----------------------------------------------------------------------------
\* The driver: it holds L, M and R, makes one call at a time and records it in
\* res; res = NoCall between calls.

NoCall ==
    [op |-> "", tgt |-> "", index |-> 0, stop |-> 0, args |-> <<>>, opt |-> "",
     exc |-> NoExc, ret |-> PyNone]

Call(op, tgt, index, stop, args, opt, r) ==
    [op |-> op, tgt |-> tgt, index |-> index, stop |-> stop, args |-> args,
     opt |-> opt, exc |-> r.exc, ret |-> r.ret]

Heap == [objs |-> objs, lists |-> lists]

EmptyHeap == [objs |-> <<>>, lists |-> <<>>]

Ready == res = NoCall

\* The call returned or raised r: the heap and the record after it.
Step(call, r) ==
    /\ objs' = r.H.objs
    /\ lists' = r.H.lists
    /\ res' = call

Indices == -(MaxLen + 1)..(MaxLen + 1)

\* The sequences over S of length at most n.
SeqsUpTo(S, n) == UNION {[1..k -> S] : k \in 0..n}

\* The objects the driver mutates: L, and R while it holds one.
Targets == {"L", "R"} \cap DOMAIN objs

\* The right operands M's container is built from.
OtherOperands ==
    { [data |-> <<>>, allowed |-> BareType("str")],
      [data |-> <<PyStr(1)>>, allowed |-> BareType("str")],
      [data |-> <<PyInt(2)>>, allowed |-> BareType("int")],
      [data |-> <<PyInt(2), PyInt(1)>>, allowed |-> BareType("int")],
      [data |-> <<PyFloat(6), PyInt(2)>>, allowed |-> DefaultAllowed],
      [data |-> <<PyFloat(2)>>, allowed |-> BareType("float")] }

CallAppend(tgt, value) ==
    /\ Ready
    /\ LET r == append(Heap, tgt, value)
       IN  /\ Len(Data(r.H, tgt)) <= MaxLen
           /\ Step(Call("append", tgt, 0, 0, <<value>>, "", r), r)

CallInsert(tgt, index, value) ==
    /\ Ready
    /\ LET r == insert(Heap, tgt, index, value)
       IN  /\ Len(Data(r.H, tgt)) <= MaxLen
           /\ Step(Call("insert", tgt, index, 0, <<value>>, "", r), r)

CallExtend(tgt, l) ==
    /\ Ready
    /\ LET r == extend(Heap, tgt, l)
       IN  /\ Len(Data(r.H, tgt)) <= MaxLen
           /\ Step(Call("extend", tgt, 0, 0, l, "", r), r)

CallPop(tgt, index) ==
    /\ Ready
    /\ LET r == pop(Heap, tgt, index)
       IN  Step(Call("pop", tgt, index, 0, <<>>, "", r), r)

\* pop() without an index.
CallPopDefault(tgt) ==
    /\ Ready
    /\ LET r == pop(Heap, tgt, pop_default_index)
       IN  Step(Call("pop", tgt, pop_default_index, 0, <<>>, "default", r), r)

CallClear(tgt) ==
    /\ Ready
    /\ LET r == clear(Heap, tgt)
       IN  Step(Call("clear", tgt, 0, 0, <<>>, "", r), r)

CallSort(tgt, descending) ==
    /\ Ready
    /\ LET r == sort(Heap, tgt, descending)
       IN  Step(Call("sort", tgt, 0, 0, <<>>, IF descending THEN "reverse" ELSE "", r), r)

CallSetitem(tgt, index, value) ==
    /\ Ready
    /\ LET r == __setitem__(Heap, tgt, index, value)
       IN  Step(Call("__setitem__", tgt, index, 0, <<value>>, "", r), r)

CallDelitem(tgt, index) ==
    /\ Ready
    /\ LET r == __delitem__(Heap, tgt, index)
       IN  Step(Call("__delitem__", tgt, index, 0, <<>>, "", r), r)

Mutate ==
    \/ \E tgt \in Targets, value \in Values : CallAppend(tgt, value)
    \/ \E tgt \in Targets, index \in Indices, value \in Values : CallInsert(tgt, index, value)
    \/ \E tgt \in Targets, l \in SeqsUpTo(Values, MaxExt) : CallExtend(tgt, l)
    \/ \E tgt \in Targets, index \in Indices : CallPop(tgt, index)
    \/ \E tgt \in Targets : CallPopDefault(tgt)
    \/ \E tgt \in Targets : CallClear(tgt)
    \/ \E tgt \in Targets, descending \in BOOLEAN : CallSort(tgt, descending)
    \/ \E tgt \in Targets, index \in Indices, value \in Values : CallSetitem(tgt, index, value)
    \/ \E tgt \in Targets, index \in Indices : CallDelitem(tgt, index)

\* The driver is done with the call and keeps what it returned.
KeepResult ==
    /\ ~Ready
    /\ res' = NoCall
    /\ UNCHANGED <<objs, lists>>

\* The driver is done with the call and drops the container it returned.
DiscardResult ==
    /\ ~Ready
    /\ res' = NoCall
    /\ LET kept == [y \in DOMAIN objs \ {"R"} |-> objs[y]]
           H == Collect(kept, lists)
       IN  objs' = H.objs /\ lists' = H.lists

\* L = DynamicList.from_list([], t); M = DynamicList.from_list(o.data, o.allowed)
Init ==
    \E t \in AllowedTypes, o \in OtherOperands :
        LET H1 == from_list(EmptyHeap, "L", <<>>, t).H
            H2 == from_list(H1, "M", o.data, o.allowed).H
        IN  objs = H2.objs /\ lists = H2.lists /\ res = NoCall

\* The right operands of a binary operation: M, L itself, and a plain integer.
Operands == {"M", "L", PlainOperand}

CallGetitem(index) ==
    /\ Ready
    /\ LET r == __getitem__(Heap, "L", index)
       IN  Step(Call("__getitem__", "L", index, 0, <<>>, "", r), r)

CallSlice(start, stop) ==
    /\ Ready
    /\ LET r == __getitem__slice(Heap, "L", start, stop)
       IN  Step(Call("slice", "L", start, stop, <<>>, "", r), r)

Access ==
    \/ \E index \in Indices : CallGetitem(index)
    \/ \E start, stop \in Indices : CallSlice(start, stop)

\* repr of an allowed type, for the call record.
type_name(t) ==
    IF t.bare THEN t.types[1] ELSE "(" \o t.types[1] \o ", " \o t.types[2] \o ")"

CallFromList(l, t) ==
    /\ Ready
    /\ LET r == from_list(Heap, "R", l, t)
       IN  Step(Call("from_list", "", 0, 0, l, type_name(t), r), r)

CallReverse ==
    /\ Ready
    /\ LET r == reverse(Heap, "L")
       IN  Step(Call("reverse", "L", 0, 0, <<>>, "", r), r)

CallUnique ==
    /\ Ready
    /\ LET r == unique(Heap, "L")
       IN  Step(Call("unique", "L", 0, 0, <<>>, "", r), r)

CallCopy ==
    /\ Ready
    /\ LET r == copy(Heap, "L")
       IN  Step(Call("copy", "L", 0, 0, <<>>, "", r), r)

\* The rest of the expression <derived> == L, where r is what building the
\* derived container R returned or raised.
EqWithReceiver(r) ==
    IF r.exc # NoExc THEN r ELSE __eq__(r.H, "R", "L")

\* L.copy() == L
CallCopyEq ==
    /\ Ready
    /\ LET r == EqWithReceiver(copy(Heap, "L"))
       IN  Step(Call("copy==", "L", 0, 0, <<>>, "", r), r)

\* L.map(func) == L
CallMapEq(func) ==
    /\ Ready
    /\ LET r == EqWithReceiver(map(Heap, "L", func))
       IN  Step(Call("map==", "L", 0, 0, <<>>, func, r), r)

CallMap(func) ==
    /\ Ready
    /\ LET r == map(Heap, "L", func)
       IN  Step(Call("map", "L", 0, 0, <<>>, func, r), r)

CallFilter(pred) ==
    /\ Ready
    /\ LET r == filter(Heap, "L", pred)
       IN  Step(Call("filter", "L", 0, 0, <<>>, pred, r), r)

CallCumulativeSum ==
    /\ Ready
    /\ LET r == cumulative_sum(Heap, "L")
       IN  Step(Call("cumulative_sum", "L", 0, 0, <<>>, "", r), r)

CallNormalize ==
    /\ Ready
    /\ LET r == normalize(Heap, "L")
       IN  Step(Call("normalize", "L", 0, 0, <<>>, "", r), r)

CallMul(scaler) ==
    /\ Ready
    /\ LET r == __mul__(Heap, "L", scaler)
       IN  Step(Call("__mul__", "L", 0, 0, <<scaler>>, "", r), r)

CallImul(scaler) ==
    /\ Ready
    /\ LET r == __imul__(Heap, "L", scaler)
       IN  Step(Call("__imul__", "L", 0, 0, <<scaler>>, "", r), r)

CallRmul(scaler) ==
    /\ Ready
    /\ LET r == __rmul__(Heap, "L", scaler)
       IN  Step(Call("__rmul__", "L", 0, 0, <<scaler>>, "", r), r)

Derive ==
    \/ \E l \in SeqsUpTo(Values, MaxExt), t \in AllowedTypes : CallFromList(l, t)
    \/ CallReverse
    \/ CallUnique
    \/ CallCopy
    \/ CallCopyEq
    \/ \E func \in Funcs : CallMap(func)
    \/ \E func \in Funcs : CallMapEq(func)
    \/ \E pred \in Preds : CallFilter(pred)
    \/ CallCumulativeSum
    \/ CallNormalize
    \/ \E scaler \in Scalers : CallMul(scaler)
    \/ \E scaler \in Scalers : CallImul(scaler)
    \/ \E scaler \in Scalers : CallRmul(scaler)

CallEq(other) ==
    /\ Ready
    /\ LET r == __eq__(Heap, "L", other)
       IN  Step(Call("__eq__", "L", 0, 0, <<>>, other, r), r)

CallNe(other) ==
    /\ Ready
    /\ LET r == __ne__(Heap, "L", other)
       IN  Step(Call("__ne__", "L", 0, 0, <<>>, other, r), r)

CallLt(other) ==
    /\ Ready
    /\ LET r == __lt__(Heap, "L", other)
       IN  Step(Call("__lt__", "L", 0, 0, <<>>, other, r), r)

CallLe(other) ==
    /\ Ready
    /\ LET r == __le__(Heap, "L", other)
       IN  Step(Call("__le__", "L", 0, 0, <<>>, other, r), r)

CallGt(other) ==
    /\ Ready
    /\ LET r == __gt__(Heap, "L", other)
       IN  Step(Call("__gt__", "L", 0, 0, <<>>, other, r), r)

CallGe(other) ==
    /\ Ready
    /\ LET r == __ge__(Heap, "L", other)
       IN  Step(Call("__ge__", "L", 0, 0, <<>>, other, r), r)

CallAdd(other) ==
    /\ Ready
    /\ LET r == __add__(Heap, "L", other)
       IN  Step(Call("__add__", "L", 0, 0, <<>>, other, r), r)

CallSub(other) ==
    /\ Ready
    /\ LET r == __sub__(Heap, "L", other)
       IN  Step(Call("__sub__", "L", 0, 0, <<>>, other, r), r)

CallIadd(other) ==
    /\ Ready
    /\ LET r == __iadd__(Heap, "L", other)
       IN  Step(Call("__iadd__", "L", 0, 0, <<>>, other, r), r)

CallConcat(other) ==
    /\ Ready
    /\ LET r == concat(Heap, "L", other)
       IN  Step(Call("concat", "L", 0, 0, <<>>, other, r), r)

Binary ==
    \E other \in Operands :
        \/ CallEq(other)
        \/ CallNe(other)
        \/ CallLt(other)
        \/ CallLe(other)
        \/ CallGt(other)
        \/ CallGe(other)
        \/ CallAdd(other)
        \/ CallSub(other)
        \/ CallIadd(other)
        \/ CallConcat(other)

\* The statistical operations without a parameter.
stat(H, x, op) ==
    CASE op = "sum" -> sum(H, x)
      [] op = "product" -> product(H, x)
      [] op = "min" -> min(H, x)
      [] op = "max" -> max(H, x)
      [] op = "mean" -> mean(H, x)
      [] op = "median" -> median(H, x)
      [] op = "mode" -> mode(H, x)
      [] op = "variance" -> variance(H, x)
      [] op = "std" -> std(H, x)
      [] op = "data_range" -> data_range(H, x)
      [] op = "describe" -> describe(H, x)

StatOps ==
    {"sum", "product", "min", "max", "mean", "median", "mode", "variance", "std",
     "data_range", "describe"}

CallStat(op) ==
    /\ Ready
    /\ LET r == stat(Heap, "L", op)
       IN  Step(Call(op, "L", 0, 0, <<>>, "", r), r)

CallPercentile(P) ==
    /\ Ready
    /\ LET r == percentile(Heap, "L", P)
       IN  Step(Call("percentile", "L", P, 0, <<>>, "", r), r)

Statistics ==
    \/ \E op \in StatOps : CallStat(op)
    \/ \E P \in Percentiles : CallPercentile(P)

Next == Mutate \/ Access \/ Derive \/ Binary \/ Statistics \/ DiscardResult

Spec == Init /\ [][Next]_vars

\* The driver that builds L, takes R = L.copy() and then mutates both.
InitCopy ==
    \E t \in AllowedTypes :
        LET H1 == from_list(EmptyHeap, "L", <<>>, t).H
        IN  objs = H1.objs /\ lists = H1.lists /\ res = NoCall

NextCopy == Mutate \/ CallCopy \/ CallCopyEq \/ KeepResult

SpecCopy == InitCopy /\ [][NextCopy]_vars

\* The calls that return a new container and leave their operands alone.
Functional ==
    \/ CallReverse
    \/ CallUnique
    \/ \E start, stop \in Indices : CallSlice(start, stop)
    \/ CallCopy
    \/ \E func \in Funcs : CallMap(func)
    \/ \E pred \in Preds : CallFilter(pred)
    \/ CallCumulativeSum
    \/ CallNormalize
    \/ \E scaler \in Scalers : CallMul(scaler)
    \/ \E scaler \in Scalers : CallImul(scaler)
    \/ \E scaler \in Scalers : CallRmul(scaler)
    \/ \E other \in Operands : CallAdd(other)
    \/ \E other \in Operands : CallSub(other)
    \/ \E other \in Operands : CallIadd(other)
    \/ \E other \in Operands : CallConcat(other)

\* The indices the driver uses on a returned container: its first and last.
ResultIndices == {-1, 0}

\* One mutation of the container R the driver kept.
MutateResult ==
    /\ "R" \in DOMAIN objs
    /\ \/ \E value \in Values : CallAppend("R", value)
       \/ \E index \in ResultIndices, value \in Values : CallInsert("R", index, value)
       \/ \E value \in Values : CallExtend("R", <<value, value>>)
       \/ \E index \in ResultIndices : CallPop("R", index)
       \/ CallPopDefault("R")
       \/ CallClear("R")
       \/ \E descending \in BOOLEAN : CallSort("R", descending)
       \/ \E index \in ResultIndices, value \in Values : CallSetitem("R", index, value)
       \/ \E index \in ResultIndices : CallDelitem("R", index)

\* The driver that builds L, takes R from a call on L that returns a
\* container, keeps it and mutates it once.
NextResult ==
    \/ "R" \notin DOMAIN objs /\ Mutate
    \/ "R" \notin DOMAIN objs /\ Functional
    \/ res.ret = PyDynamicList /\ KeepResult
    \/ MutateResult
    \/ DiscardResult

SpecResult == Init /\ [][NextResult]_vars

\* 2.0 ** 1023, a double within a factor of two of the largest.
Huge == [t |-> "float", v |-> 4, e |-> 1023]

\* The numbers the medians are taken of: 1, 1.5, 2.0 ** 1023, -2.0 ** 1023.
MedianValues == {PyInt(1), PyFloat(6), Huge, float_neg(Huge)}

\* L = DynamicList.from_list(l)
InitMedian ==
    \E l \in SeqsUpTo(MedianValues, MaxLen) :
        LET H1 == from_list(EmptyHeap, "L", l, DefaultAllowed).H
        IN  objs = H1.objs /\ lists = H1.lists /\ res = NoCall

\* L.percentile(50) == L.median()
CallPercentileEqMedian ==
    /\ Ready
    /\ LET p == percentile(Heap, "L", 50)
           m == median(Heap, "L")
           r == IF p.exc # NoExc THEN p
                ELSE IF m.exc # NoExc THEN m
                ELSE Return(Heap, PyBool(PyEq(p.ret, m.ret)))
       IN  Step(Call("percentile==median", "L", 50, 0, <<>>, "", r), r)

NextMedian ==
    \/ CallStat("median")
    \/ \E P \in Percentiles : CallPercentile(P)
    \/ CallPercentileEqMedian
    \/ DiscardResult

SpecMedian == InitMedian /\ [][NextMedian]_vars

----------------------------------------------------------------------------
\* The elements and the allowed type of the object named x.
Elems(x) == lists[objs[x].data]

Allowed(x) == objs[x].allowed

MutationOps ==
    {"append", "insert", "extend", "pop", "clear", "sort", "__setitem__", "__delitem__"}

\* C1: every element of every container on the heap (the receiver after any
\* run of successful and failed mutations, the other operand, and the
\* container any deriving call returned) is an instance of a type of that
\* container's allowed-type set.
C1_ElementsAreOfAllowedType ==
    \A x \in DOMAIN objs :
        \A i \in 1..Len(Elems(x)) : isinstance(Elems(x)[i], Allowed(x))

\* A derived container with elements was returned for a non-empty receiver.
C1_Witness ==
    /\ res.op = "cumulative_sum"
    /\ res.exc = NoExc
    /\ "R" \in DOMAIN objs
    /\ Len(Elems("R")) = MaxLen
    /\ Allowed("L") = TupleType(<<"int", "str">>)

\* The elements of the object named x after the step.
ElemsAfter(x) == lists'[objs'[x].data]

HeapUnchanged == objs' = objs /\ lists' = lists

\* C2: append(value), insert(index, value) with -length <= index <= length,
\* and index assignment at any index, of a value that is not an instance of
\* the container's allowed types, raise InvalidElementTypeError and leave the
\* elements and the allowed type as they were.
C2_DisallowedValueRejected ==
    [][(/\ res'.op \in {"append", "insert", "__setitem__"}
        /\ ~isinstance(res'.args[1], Allowed(res'.tgt))
        /\ (res'.op = "insert" =>
               /\ -Len(Elems(res'.tgt)) <= res'.index
               /\ res'.index <= Len(Elems(res'.tgt))))
       => (res'.exc = "InvalidElementTypeError" /\ HeapUnchanged)]_vars

\* An index assignment of a disallowed value at an index out of range, on a
\* container with elements.
C2_Witness ==
    /\ res.op = "__setitem__"
    /\ res.exc = "InvalidElementTypeError"
    /\ Len(Elems("L")) >= 1
    /\ res.index >= Len(Elems("L"))

\* C3: reading index i of a container of length n raises
\* IndexOutOfRangeError when i >= n or i < -n, and returns the element at
\* that position (negative indices from the end) otherwise.
C3_GetitemChecksRange ==
    res.op = "__getitem__" =>
        LET n == Len(Elems("L"))
            i == res.index
        IN  IF i >= n \/ i < -n
            THEN res.exc = "IndexOutOfRangeError"
            ELSE /\ res.exc = NoExc
                 /\ res.ret = Elems("L")[IF i < 0 THEN n + i + 1 ELSE i + 1]

\* s without its p-th element (p from 1).
Without(s, p) == [k \in 1..(Len(s) - 1) |-> IF k < p THEN s[k] ELSE s[k + 1]]

\* C4: on a container of length n, pop(i) and del at i succeed exactly when
\* -n <= i < n, removing (for pop, returning) the element there and keeping
\* the others in order; insert(i, v) of an allowed v succeeds exactly when
\* -n <= i <= n, putting v before the element that was at i; with any other
\* index each raises IndexOutOfRangeError and changes nothing. pop() without
\* an index on an empty container raises IndexOutOfRangeError.
C4_IndexedMutationsCheckRange ==
    [][LET op == res'.op
           pre == Elems(res'.tgt)
           post == ElemsAfter(res'.tgt)
           n == Len(pre)
           i == res'.index
           p == IF i < 0 THEN n + i + 1 ELSE i + 1
       IN  /\ op \in {"pop", "__delitem__"} =>
                IF -n <= i /\ i < n
                THEN /\ res'.exc = NoExc
                     /\ post = Without(pre, p)
                     /\ op = "pop" => res'.ret = pre[p]
                ELSE res'.exc = "IndexOutOfRangeError" /\ HeapUnchanged
           /\ (op = "pop" /\ res'.opt = "default" /\ n = 0) =>
                res'.exc = "IndexOutOfRangeError"
           /\ (op = "insert" /\ isinstance(res'.args[1], Allowed(res'.tgt))) =>
                IF -n <= i /\ i <= n
                THEN /\ res'.exc = NoExc
                     /\ Len(post) = n + 1
                     /\ post[p] = res'.args[1]
                     /\ Without(post, p) = pre
                ELSE res'.exc = "IndexOutOfRangeError" /\ HeapUnchanged]_vars

\* The middle element of three was popped.
C4_Witness ==
    /\ res.op = "pop"
    /\ res.exc = NoExc
    /\ res.index = 1
    /\ Len(Elems("L")) = 2
    /\ Elems("L")[1] # Elems("L")[2]

\* The types of an allowed type, as a set.
TypeSet(a) == {a.types[i] : i \in 1..Len(a.types)}

\* C5: ==, !=, <, <=, >, >= and concat between two containers whose
\* allowed-type sets differ raise WrongDataTypeError, whatever the elements.
C5_DifferentTypesRejected ==
    (/\ res.op \in {"__eq__", "__ne__", "__lt__", "__le__", "__gt__", "__ge__", "concat"}
     /\ res.opt \in {"L", "M"}
     /\ TypeSet(Allowed("L")) # TypeSet(Allowed(res.opt)))
    => res.exc = "WrongDataTypeError"

\* C6: every statistical operation raises EmptyListError on a container
\* without elements, and WrongDataTypeError on a non-empty container whose
\* allowed types include a non-numeric one; in both cases the container is
\* unchanged.
C6_StatisticsValidate ==
    [][res'.op \in StatOps \cup {"percentile"} =>
          LET n == Len(Elems("L"))
              numeric == TypeSet(Allowed("L")) \subseteq {"int", "float", "bool"}
          IN  /\ n = 0 => (res'.exc = "EmptyListError" /\ HeapUnchanged)
              /\ (n > 0 /\ ~numeric) =>
                    (res'.exc = "WrongDataTypeError" /\ HeapUnchanged)]_vars

\* C7: for every container L, L.map(identity) succeeds and
\* L.map(identity) == L is true.
C7_MapIdentityEqualsReceiver ==
    (res.op = "map==" /\ res.opt = "identity") =>
        (res.exc = NoExc /\ res.ret = PyBool(TRUE))

\* C8: L.copy() == L is true and the copy has L's allowed type and elements;
\* afterwards no mutation of the copy changes L's elements and no mutation of
\* L changes the copy's.
C8_CopyEqualAndIndependent ==
    /\ [](res.op = "copy==" =>
            /\ res.exc = NoExc
            /\ res.ret = PyBool(TRUE)
            /\ Allowed("R") = Allowed("L"))
    /\ [](res.op = "copy" =>
            /\ res.exc = NoExc
            /\ Allowed("R") = Allowed("L")
            /\ Elems("R") = Elems("L"))
    /\ [][(res'.op \in MutationOps /\ "R" \in DOMAIN objs) =>
            /\ res'.tgt = "R" => ElemsAfter("L") = Elems("L")
            /\ res'.tgt = "L" => ElemsAfter("R") = Elems("R")
            /\ Allowed("R") = Allowed("L")]_vars

\* The copy was sorted after both had been mutated apart.
C8_Witness ==
    /\ res.op = "sort"
    /\ res.tgt = "R"
    /\ res.exc = NoExc
    /\ Len(Elems("R")) = MaxLen
    /\ Len(Elems("L")) = 1
    /\ Elems("R")[1] # Elems("R")[MaxLen]

\* The element-wise sums (differences) of two element sequences of one length.
Sums(a, b, sub) ==
    [i \in 1..Len(a) |-> IF sub THEN PySub(a[i], b[i]) ELSE PyAdd(a[i], b[i])]

\* What add and subtract return for operands of equal length: a container of
\* the left operand's allowed type holding the sums.
ReturnsSums(sums) ==
    /\ res.exc = NoExc
    /\ "R" \in DOMAIN objs
    /\ Allowed("R") = Allowed("L")
    /\ Len(Elems("R")) = Len(sums)
    /\ \A i \in 1..Len(sums) : sums[i].exc = NoExc /\ Elems("R")[i] = sums[i].val

C10_ExtendStopsAtFirstInvalid ==
    [][res'.op = "extend" =>
          LET l == res'.args
              pre == Elems(res'.tgt)
              post == ElemsAfter(res'.tgt)
              bad == {k \in 1..Len(l) : ~isinstance(l[k], Allowed(res'.tgt))}
          IN  IF bad = {}
              THEN res'.exc = NoExc /\ post = pre \o l
              ELSE LET k == CHOOSE j \in bad : \A m \in bad : j <= m
                   IN  /\ res'.exc = "InvalidElementTypeError"
                       /\ post = pre \o SubSeq(l, 1, k - 1)]_vars

\* extend of (allowed, disallowed, allowed) on a container with one element:
\* the first value stayed, the third never arrived.
C10_Witness ==
    /\ res.op = "extend"
    /\ res.exc = "InvalidElementTypeError"
    /\ Len(res.args) = 3
    /\ isinstance(res.args[1], Allowed("L"))
    /\ ~isinstance(res.args[2], Allowed("L"))
    /\ isinstance(res.args[3], Allowed("L"))
    /\ Len(Elems("L")) = 2
    /\ Elems("L")[2] = res.args[1]

\* The calls that return a new container.
FunctionalOps ==
    {"reverse", "unique", "slice", "copy", "map", "filter", "cumulative_sum",
     "normalize", "__mul__", "__imul__", "__rmul__", "__add__", "__sub__",
     "__iadd__", "concat"}

\* The object x and its elements are after the step what they were before.
ObjectUnchanged(x) ==
    /\ x \in DOMAIN objs'
    /\ objs'[x] = objs[x]
    /\ ElemsAfter(x) = Elems(x)

\* C11: reverse, unique, slicing, concat, multiply (also n * L), copy, map,
\* filter, cumulative_sum, normalize, add, subtract, += and *= leave the
\* receiver object and the other operand as they were, whether they return
\* or raise; the container they return is an object with a list of its own,
\* and a later mutation of it leaves the receiver and the other operand as
\* they were.
C11_FunctionalCallsLeaveOperandsAlone ==
    /\ [][res'.op \in FunctionalOps =>
             ObjectUnchanged("L") /\ ObjectUnchanged("M")]_vars
    /\ []((res.op \in FunctionalOps /\ res.exc = NoExc) =>
             /\ res.ret = PyDynamicList
             /\ "R" \in DOMAIN objs
             /\ objs["R"].data \notin {objs["L"].data, objs["M"].data})
    /\ [][(res'.op \in MutationOps /\ res'.tgt = "R") =>
             ObjectUnchanged("L") /\ ObjectUnchanged("M")]_vars

\* L * 2 of a full L was kept and then sorted into another order.
C11_Witness ==
    /\ res.op = "sort"
    /\ res.tgt = "R"
    /\ res.exc = NoExc
    /\ Len(Elems("L")) = MaxLen
    /\ Len(Elems("R")) = 2 * MaxLen
    /\ Elems("R") # Elems("L") \o Elems("L")

\* C12: on a non-empty container of numbers percentile(50) returns the value
\* median() returns, which is the middle order statistic for an odd length
\* and, for an even length, the average of the two central ones (so neither
\* below the lower nor above the upper of them).
C12_Percentile50IsMedian ==
    LET s == sorted(Elems("L"), FALSE).val
        n == Len(s)
        mid == n \div 2
    IN  n >= 1 =>
          /\ res.op = "percentile==median" =>
                (res.exc = NoExc /\ res.ret = PyBool(TRUE))
          /\ (res.op = "median" \/ (res.op = "percentile" /\ res.index = 50)) =>
                /\ res.exc = NoExc
                /\ IF n % 2 # 0 THEN PyEq(res.ret, s[mid + 1])
                   ELSE ~PyLt(res.ret, s[mid]) /\ ~PyLt(s[mid + 1], res.ret)

====
